---- MODULE Spec2Model ----
(***************************************************************************)
(* SunCHECK PDF renamer (src/suncheck_renamer.py): the field parser, the   *)
(* token sanitizer, the filename synthesizer, the output placer and the    *)
(* drop handler that runs them over a batch.                               *)
(*                                                                         *)
(* Text is modelled at the character level: a string is a sequence of      *)
(* one-character strings, so that the regular expressions, str.strip,      *)
(* re.sub and pathlib's stem/suffix are computed, not assumed.             *)
(***************************************************************************)
EXTENDS Integers, Sequences, FiniteSets, TLC

VARIABLES
    outDirExists,   \* output_dir exists on disk
    outFiles,       \* output_dir: file name -> content
    writable,       \* output_dir can be created and written to
    items,          \* on_drop: the dropped items (event.data, split)
    idx,            \* on_drop: index of the next item of the for loop
    pdfs,           \* on_drop: the entries of the directory being iterated
    cur,            \* handle_pdf: the file being handled
    pc,             \* position inside on_drop / handle_pdf / process_pdf
    fields,         \* process_pdf: the four match objects
    new_name,       \* process_pdf: the synthesized file name
    out_path,       \* process_pdf: the name make_unique returned
    log,            \* the outcomes reported through log_line, in order
    seen,           \* on_drop: the files passed to handle_pdf, in order
    extracted,      \* the files that were passed to extract_text
    serialized,     \* two-run system: placement is executed under a lock
    wpc,            \* two-run system: position of each run
    wout,           \* two-run system: out_path of each run
    cx,             \* sanitizer: input string
    cy,             \* sanitizer: clean(cx)
    cz,             \* sanitizer: clean(clean(cx))
    cpc             \* sanitizer: how many times clean was applied

vars == <<outDirExists, outFiles, writable, items, idx, pdfs, cur, pc, fields,
          new_name, out_path, log, seen, extracted,
          serialized, wpc, wout, cx, cy, cz, cpc>>

appVars == <<outDirExists, outFiles, writable, items, idx, pdfs, cur, pc,
             fields, new_name, out_path, log, seen, extracted>>
concVars == <<serialized, wpc, wout>>
cleanVars == <<cx, cy, cz, cpc>>

---------------------------------------------------------------------------
(* Bounds of the model. *)

\* longest input string handed to clean in the sanitizer specification
MaxLen == 4
\* highest counter among the colliding names already in the output directory
MaxPre == 2
\* most items dropped at once
MaxItems == 2

---------------------------------------------------------------------------
(* Characters. *)

Whitespace == {" ", "\t", "\n", "\r", "\f"}
LineBreak == {"\n", "\r"}
UpperCase == <<"A","B","C","D","E","F","G","H","I","J","K","L","M","N","O","P","Q","R","S","T","U","V","W","X","Y","Z">>
LowerCase == <<"a","b","c","d","e","f","g","h","i","j","k","l","m","n","o","p","q","r","s","t","u","v","w","x","y","z">>
DigitChars == <<"0","1","2","3","4","5","6","7","8","9">>
Digit == {DigitChars[i] : i \in 1..10}
Letter == {UpperCase[i] : i \in 1..26} \cup {LowerCase[i] : i \in 1..26}
Reserved == {"\\", "/", ":", "*", "?", "\"", "<", ">", "|"}

\* str.lower() on one character
LowerChar(c) ==
    IF \E i \in 1..26 : UpperCase[i] = c
    THEN LowerCase[CHOOSE i \in 1..26 : UpperCase[i] = c]
    ELSE c

RECURSIVE Lower(_)
Lower(s) == IF s = <<>> THEN <<>> ELSE <<LowerChar(Head(s))>> \o Lower(Tail(s))

Max(S) == CHOOSE x \in S : \A y \in S : y <= x
Min(S) == CHOOSE x \in S : \A y \in S : x <= y

\* all sequences over the set A of length at most n
RECURSIVE SeqsUpTo(_, _)
SeqsUpTo(A, n) ==
    IF n = 0 THEN {<<>>}
    ELSE LET shorter == SeqsUpTo(A, n - 1)
         IN shorter \cup {Append(s, c) : s \in shorter, c \in A}

---------------------------------------------------------------------------
(* Token sanitizer. *)

RECURSIVE LStrip(_)
LStrip(s) == IF s # <<>> /\ Head(s) \in Whitespace THEN LStrip(Tail(s)) ELSE s

RECURSIVE RStrip(_)
RStrip(s) ==
    IF s # <<>> /\ s[Len(s)] \in Whitespace
    THEN RStrip(SubSeq(s, 1, Len(s) - 1))
    ELSE s

\* str.strip()
Strip(s) == RStrip(LStrip(s))

IsNotReserved(c) == c \notin Reserved

\* re.sub(r'[\\/:*?"<>|]', "", t)
RemoveReserved(t) == SelectSeq(t, IsNotReserved)

clean(s) == RemoveReserved(Strip(s))

---------------------------------------------------------------------------
(* Regular expressions of the field parser.  A match object is a record:   *)
(* ok, at (where the match begins), [start, stop) of group 1 and           *)
(* [start2, stop2) of group 2.                                             *)

PatientIdLabel == <<"P","a","t","i","e","n","t"," ","I","D",":">>
PatientNameLabel == <<"P","a","t","i","e","n","t"," ","N","a","m","e",":">>
PlanNameLabel == <<"P","l","a","n"," ","N","a","m","e",":">>
DiffWord == <<"D","i","f","f">>
PercentParen == <<"(","%",")">>
DistWord == <<"D","i","s","t">>
MmParen == <<"(","m","m",")">>

\* \d{5,9}
MinDigits == 5
MaxDigits == 9

NoMatch == [ok |-> FALSE, at |-> 0, start |-> 0, stop |-> 0, start2 |-> 0, stop2 |-> 0]

\* the literal lit stands in text at position i
LitAt(text, i, lit) ==
    /\ i + Len(lit) - 1 <= Len(text)
    /\ \A k \in 1..Len(lit) : text[i + k - 1] = lit[k]

\* the same under re.IGNORECASE
LitAtIgnoreCase(text, i, lit) ==
    /\ i + Len(lit) - 1 <= Len(text)
    /\ \A k \in 1..Len(lit) : LowerChar(text[i + k - 1]) = LowerChar(lit[k])

\* greedy C*: the position after the longest run of characters of C from i
RECURSIVE RunEnd(_, _, _)
RunEnd(text, i, C) ==
    IF i <= Len(text) /\ text[i] \in C THEN RunEnd(text, i + 1, C) ELSE i

\* greedy [^C]*
RECURSIVE RunEndNot(_, _, _)
RunEndNot(text, i, C) ==
    IF i <= Len(text) /\ text[i] \notin C THEN RunEndNot(text, i + 1, C) ELSE i

\* PID_RE matched at position p: Patient ID:\s*([A-Za-z]*\d{5,9})
PidMatchAt(text, p) ==
    LET s == p + Len(PatientIdLabel)
        a == RunEnd(text, s, Whitespace)
        b == RunEnd(text, a, Letter)
        c == RunEnd(text, b, Digit)
        n == c - b
    IN IF LitAt(text, p, PatientIdLabel) /\ n >= MinDigits
       THEN [ok |-> TRUE, at |-> p, start |-> a,
             stop |-> b + (IF n > MaxDigits THEN MaxDigits ELSE n),
             start2 |-> 0, stop2 |-> 0]
       ELSE NoMatch

\* label\s*([^\n\r]+) matched at position p.  \s* is greedy and gives
\* characters back until [^\n\r]+ finds one character to take: the group
\* starts at the last position k of the whitespace run (or right after it)
\* that holds a character other than a line break.
LineMatchAt(text, p, label) ==
    LET s == p + Len(label)
        j == RunEnd(text, s, Whitespace)
        K == {k \in s..j : k <= Len(text) /\ text[k] \notin LineBreak}
    IN IF LitAt(text, p, label) /\ K # {}
       THEN [ok |-> TRUE, at |-> p, start |-> Max(K),
             stop |-> RunEndNot(text, Max(K), LineBreak),
             start2 |-> 0, stop2 |-> 0]
       ELSE NoMatch

\* NAME_RE and PLAN_RE matched at position p
NameMatchAt(text, p) == LineMatchAt(text, p, PatientNameLabel)
PlanMatchAt(text, p) == LineMatchAt(text, p, PlanNameLabel)

\* GAMMA_RE matched at position p (re.IGNORECASE):
\* Diff\s*\(%\)\s*:\s*(\d+)\s*Dist\s*\(mm\)\s*:\s*(\d+)
GammaMatchAt(text, p) ==
    LET a == RunEnd(text, p + Len(DiffWord), Whitespace)
        b == RunEnd(text, a + Len(PercentParen), Whitespace)
        c == RunEnd(text, b + 1, Whitespace)
        d == RunEnd(text, c, Digit)
        e == RunEnd(text, d, Whitespace)
        f == RunEnd(text, e + Len(DistWord), Whitespace)
        g == RunEnd(text, f + Len(MmParen), Whitespace)
        h == RunEnd(text, g + 1, Whitespace)
        i == RunEnd(text, h, Digit)
    IN IF /\ LitAtIgnoreCase(text, p, DiffWord)
          /\ LitAtIgnoreCase(text, a, PercentParen)
          /\ LitAt(text, b, <<":">>)
          /\ d > c
          /\ LitAtIgnoreCase(text, e, DistWord)
          /\ LitAtIgnoreCase(text, f, MmParen)
          /\ LitAt(text, g, <<":">>)
          /\ i > h
       THEN [ok |-> TRUE, at |-> p, start |-> c, stop |-> d,
             start2 |-> h, stop2 |-> i]
       ELSE NoMatch

\* pattern.search(text): the match at the leftmost position that has one
PidSearch(text) ==
    LET P == {p \in 1..Len(text) : PidMatchAt(text, p).ok}
    IN IF P = {} THEN NoMatch ELSE PidMatchAt(text, Min(P))

NameSearch(text) ==
    LET P == {p \in 1..Len(text) : NameMatchAt(text, p).ok}
    IN IF P = {} THEN NoMatch ELSE NameMatchAt(text, Min(P))

PlanSearch(text) ==
    LET P == {p \in 1..Len(text) : PlanMatchAt(text, p).ok}
    IN IF P = {} THEN NoMatch ELSE PlanMatchAt(text, Min(P))

GammaSearch(text) ==
    LET P == {p \in 1..Len(text) : GammaMatchAt(text, p).ok}
    IN IF P = {} THEN NoMatch ELSE GammaMatchAt(text, Min(P))

\* m.group(1), m.group(2)
Group1(text, m) == SubSeq(text, m.start, m.stop - 1)
Group2(text, m) == SubSeq(text, m.start2, m.stop2 - 1)

---------------------------------------------------------------------------
(* Text extractor.  A document is a sequence of pages; a page is its text, *)
(* or NoText when the library extracts nothing from it.                    *)

NoText == "None"

PageText(p) == IF p = NoText THEN <<>> ELSE p

\* "\n".join((p.extract_text() or "") for p in reader.pages)
RECURSIVE JoinPages(_)
JoinPages(pages) ==
    IF pages = <<>> THEN <<>>
    ELSE IF Len(pages) = 1 THEN PageText(pages[1])
    ELSE PageText(pages[1]) \o <<"\n">> \o JoinPages(Tail(pages))

\* extract_text is defined with the documents, below

---------------------------------------------------------------------------
(* Paths: a file of the output directory is named by its final component. *)

\* position of the last "." of a name, 0 when it has none
LastDot(name) ==
    LET D == {i \in 1..Len(name) : name[i] = "."}
    IN IF D = {} THEN 0 ELSE Max(D)

\* PurePath.suffix
Suffix(name) ==
    LET d == LastDot(name)
    IN IF 1 < d /\ d < Len(name) THEN SubSeq(name, d, Len(name)) ELSE <<>>

\* PurePath.stem
Stem(name) ==
    LET d == LastDot(name)
    IN IF 1 < d /\ d < Len(name) THEN SubSeq(name, 1, d - 1) ELSE name

\* str(i) for i >= 0
RECURSIVE DecStr(_)
DecStr(i) ==
    IF i < 10 THEN <<DigitChars[i + 1]>>
    ELSE DecStr(i \div 10) \o <<DigitChars[(i % 10) + 1]>>

\* path.with_name(f"{stem}({i}){path.suffix}")
Candidate(name, i) == Stem(name) \o <<"(">> \o DecStr(i) \o <<")">> \o Suffix(name)

\* range(1, 10000)
RangeEnd == 10000

\* make_unique(path), names being the names that exist in path's directory:
\* the loop returns at the first i of range(1, 10000) whose candidate does
\* not exist, and falls through to "return path" when every one exists.
make_unique(names, name) ==
    IF name \notin names THEN name
    ELSE LET free(i) == Candidate(name, i) \notin names
         IN IF \E i \in 1..(RangeEnd - 1) : free(i)
            THEN Candidate(name,
                     CHOOSE i \in 1..(RangeEnd - 1) :
                         free(i) /\ \A j \in 1..(i - 1) : ~free(j))
            ELSE name

IsNotEmpty(t) == t # <<>>

RECURSIVE JoinUnderscore(_)
JoinUnderscore(ts) ==
    IF ts = <<>> THEN <<>>
    ELSE IF Len(ts) = 1 THEN ts[1]
    ELSE ts[1] \o <<"_">> \o JoinUnderscore(Tail(ts))

\* a synthesizer that joins only the tokens that are not empty
SynthesizeSkipEmpty(pid, name, plan, diff, dist) ==
    JoinUnderscore(SelectSeq(<<clean(pid), clean(name), clean(plan)>>, IsNotEmpty))
        \o <<"_">> \o diff \o <<"%">> \o dist \o <<"m","m",".","p","d","f">>

\* f"{clean(pid)}_{clean(name)}_{clean(plan)}_{diff}%{dist}mm.pdf"
Synthesize(pid, name, plan, diff, dist) ==
    clean(pid) \o <<"_">> \o clean(name) \o <<"_">> \o clean(plan)
        \o <<"_">> \o diff \o <<"%">> \o dist \o <<"m","m",".","p","d","f">>

---------------------------------------------------------------------------
(* Documents and files the model draws its inputs from.  A document is     *)
(* named by the lines it is made of; its pages are built from them.        *)

PidLines == <<
    <<>>,
    <<"P","a","t","i","e","n","t"," ","I","D",":"," ","A","B","C","1","2","3","4","5","\n">>,
    <<"P","a","t","i","e","n","t"," ","I","D",":"," ","1","2","3","4","\n">> >>

NameLines == <<
    <<>>,
    <<"P","a","t","i","e","n","t"," ","N","a","m","e",":"," ","J","o","h","n"," ","D","o","e","\n">>,
    <<"P","a","t","i","e","n","t"," ","N","a","m","e",":"," ","J","o","/","h","n","*","D","o","e","\n">>,
    <<"P","a","t","i","e","n","t"," ","N","a","m","e",":"," ","\n">>,
    <<"P","a","t","i","e","n","t"," ","N","a","m","e",":"," ","?","\n">>,
    <<"P","a","t","i","e","n","t"," ","N","a","m","e",":"," ","/"," ","a","\n">> >>

PlanLines == <<
    <<>>,
    <<"P","l","a","n"," ","N","a","m","e",":"," ","P","l","a","n"," ","A","\n">>,
    <<"P","l","a","n"," ","N","a","m","e",":","\t","|","\n">> >>

GammaLines == <<
    <<>>,
    <<"D","i","f","f"," ","(","%",")",":"," ","3"," ","D","i","s","t"," ","(","m","m",")",":"," ","2">>,
    <<"d","i","f","f","(","%",")"," ",":","0","3","\n","D","I","S","T"," ","(","M","M",")",":","1","0","\n">>,
    <<"D","i","f","f"," ","(","%",")",":"," ","D","i","s","t"," ","(","m","m",")",":"," ","2","\n">> >>

\* layout 1: every line on one page; layout 2: two pages of text with a
\* page without text between them
Layouts == {1, 2}

Docs == [pid : 1..Len(PidLines), name : 1..Len(NameLines),
         plan : 1..Len(PlanLines), gamma : 1..Len(GammaLines), layout : Layouts]

PagesOf(d) ==
    IF d.layout = 1
    THEN << PidLines[d.pid] \o NameLines[d.name] \o PlanLines[d.plan] \o GammaLines[d.gamma] >>
    ELSE << PidLines[d.pid] \o NameLines[d.name], NoText,
            PlanLines[d.plan] \o GammaLines[d.gamma] >>

\* "Patient ID: ABC12345", "Patient Name: John Doe", "Plan Name: Plan A",
\* "Diff (%): 3 Dist (mm): 2"
StdDoc == [pid |-> 2, name |-> 2, plan |-> 2, gamma |-> 2, layout |-> 1]
\* the same without the Plan Name line
NoPlanDoc == [pid |-> 2, name |-> 2, plan |-> 1, gamma |-> 2, layout |-> 1]

StdName == <<"A","B","C","1","2","3","4","5","_","J","o","h","n"," ","D","o","e","_","P","l","a","n"," ","A","_","3","%","2","m","m",".","p","d","f">>

NoFile == [name |-> <<>>, doc |-> StdDoc, readable |-> FALSE]

FileOf(nm, d, r) == [name |-> nm, doc |-> d, readable |-> r]

FileA == FileOf(<<"a",".","p","d","f">>, StdDoc, TRUE)
FileB == FileOf(<<"b",".","P","D","F">>, StdDoc, TRUE)
FileC == FileOf(<<"c",".","p","d","f">>, NoPlanDoc, TRUE)
FileD == FileOf(<<"d",".","p","d","f">>, StdDoc, FALSE)
FileE == FileOf(<<"e",".","t","x","t">>, StdDoc, TRUE)
FileHidden == FileOf(<<".","p","d","f">>, StdDoc, TRUE)

FileItem(f) == [isDir |-> FALSE, file |-> f, entries |-> {}]
DirItem(E) == [isDir |-> TRUE, file |-> NoFile, entries |-> E]

\* a dropped directory
DirEntries == {FileC, FileA, FileHidden, FileE, FileB}

ItemUniverse ==
    {FileItem(FileA), FileItem(FileB), FileItem(FileC), FileItem(FileD),
     FileItem(FileE), DirItem(DirEntries), DirItem({})}

extract_text(pdf) == JoinPages(PagesOf(pdf.doc))

\* pdf.read_bytes()
read_bytes(f) == f.name

\* content of a file that was in the output directory before the drop
OldBytes == <<"old">>

---------------------------------------------------------------------------
(* Path order and directory enumeration. *)

\* the characters of the model's file names in code point order
CodeOrder ==
    <<" ","%","(",")",".">> \o DigitChars \o UpperCase \o <<"_">> \o LowerCase

Code(c) == CHOOSE i \in 1..Len(CodeOrder) : CodeOrder[i] = c

\* a < b for two names (str comparison)
RECURSIVE NameLess(_, _)
NameLess(a, b) ==
    IF b = <<>> THEN FALSE
    ELSE IF a = <<>> THEN TRUE
    ELSE IF Head(a) = Head(b) THEN NameLess(Tail(a), Tail(b))
    ELSE Code(Head(a)) < Code(Head(b))

\* sorted(S) for a set of files of one directory
RECURSIVE SortedFiles(_)
SortedFiles(S) ==
    IF S = {} THEN <<>>
    ELSE LET m == CHOOSE x \in S : \A y \in S : x = y \/ NameLess(x.name, y.name)
         IN <<m>> \o SortedFiles(S \ {m})

\* path.glob("*.pdf"): the entries whose name ends in ".pdf" (the pattern
\* is matched case-sensitively, as on a POSIX file system; "*" also matches
\* the empty string and a leading dot)
Glob(E) ==
    {f \in E : /\ Len(f.name) >= 4
               /\ SubSeq(f.name, Len(f.name) - 3, Len(f.name)) = <<".","p","d","f">>}

---------------------------------------------------------------------------
(* process_pdf: the field checks and the output directory. *)

NoFields == [pid |-> NoMatch, name |-> NoMatch, plan |-> NoMatch, gamma |-> NoMatch]

\* the four searches of process_pdf
SearchAll(text) ==
    [pid |-> PidSearch(text), name |-> NameSearch(text),
     plan |-> PlanSearch(text), gamma |-> GammaSearch(text)]

\* the field checks with Patient Name tested before Patient ID
MissingFieldNameFirst(m) ==
    IF ~m.name.ok THEN "Patient Name"
    ELSE IF ~m.pid.ok THEN "Patient ID"
    ELSE IF ~m.plan.ok THEN "Plan Name"
    ELSE IF ~m.gamma.ok THEN "Diff/Dist"
    ELSE ""

\* the ValueError process_pdf raises for the match objects m, "" for none
MissingField(m) ==
    IF ~m.pid.ok THEN "Patient ID"
    ELSE IF ~m.name.ok THEN "Patient Name"
    ELSE IF ~m.plan.ok THEN "Plan Name"
    ELSE IF ~m.gamma.ok THEN "Diff/Dist"
    ELSE ""

\* new_name of process_pdf for the match objects m over text
NewName(text, m) ==
    Synthesize(Group1(text, m.pid), Group1(text, m.name), Group1(text, m.plan),
               Group1(text, m.gamma), Group2(text, m.gamma))

\* the directory after write_bytes(bytes) to name
Put(files, name, bytes) ==
    [n \in DOMAIN files \cup {name} |-> IF n = name THEN bytes ELSE files[n]]

NoFiles == [n \in {} |-> OldBytes]

---------------------------------------------------------------------------
(* The drop handler, one file at a time. *)

LogEntry(tag, f, out, err) == [tag |-> tag, file |-> f, out |-> out, err |-> err]

IsOutcome(e) == e.tag \in {"OK", "SKIP", "ERR"}

\* the outcomes reported so far, in order
Outcomes == SelectSeq(log, IsOutcome)

\* a handle_pdf that only skips files without any extension
IsPdfAnyExtension(f) == Suffix(f.name) # <<>>

\* pdf.suffix.lower() == ".pdf"
IsPdf(f) == Lower(Suffix(f.name)) = <<".","p","d","f">>

\* on_drop is entered: "[INFO] Drop items".  self.output_dir is a Path from
\* __init__ on, so the "is None" branch is never taken.
on_drop_begin ==
    /\ pc = "idle"
    /\ log' = Append(log, LogEntry("INFO", NoFile, <<>>, ""))
    /\ pc' = "loop"
    /\ UNCHANGED <<outDirExists, outFiles, writable, items, idx, pdfs, cur,
                   fields, new_name, out_path, seen, extracted>>
    /\ UNCHANGED concVars
    /\ UNCHANGED cleanVars

\* for item in items, path.is_dir(): pdfs = sorted(path.glob("*.pdf"))
on_drop_dir ==
    /\ pc = "loop"
    /\ pdfs = <<>>
    /\ idx <= Len(items)
    /\ items[idx].isDir
    /\ pdfs' = SortedFiles(Glob(items[idx].entries))
    /\ log' = Append(log, LogEntry("DIR", NoFile, <<>>, ""))
    /\ idx' = idx + 1
    /\ UNCHANGED <<outDirExists, outFiles, writable, items, cur, pc,
                   fields, new_name, out_path, seen, extracted>>
    /\ UNCHANGED concVars
    /\ UNCHANGED cleanVars

\* for pdf in pdfs: self.handle_pdf(pdf)
on_drop_entry ==
    /\ pc = "loop"
    /\ pdfs # <<>>
    /\ cur' = Head(pdfs)
    /\ pdfs' = Tail(pdfs)
    /\ seen' = Append(seen, Head(pdfs))
    /\ pc' = "handle"
    /\ UNCHANGED <<outDirExists, outFiles, writable, items, idx,
                   fields, new_name, out_path, log, extracted>>
    /\ UNCHANGED concVars
    /\ UNCHANGED cleanVars

\* for item in items, not a directory: self.handle_pdf(path)
on_drop_file ==
    /\ pc = "loop"
    /\ pdfs = <<>>
    /\ idx <= Len(items)
    /\ ~items[idx].isDir
    /\ cur' = items[idx].file
    /\ seen' = Append(seen, items[idx].file)
    /\ idx' = idx + 1
    /\ pc' = "handle"
    /\ UNCHANGED <<outDirExists, outFiles, writable, items, pdfs,
                   fields, new_name, out_path, log, extracted>>
    /\ UNCHANGED concVars
    /\ UNCHANGED cleanVars

\* the for loop of on_drop is over
on_drop_end ==
    /\ pc = "loop"
    /\ pdfs = <<>>
    /\ idx > Len(items)
    /\ pc' = "done"
    /\ UNCHANGED <<outDirExists, outFiles, writable, items, idx, pdfs, cur,
                   fields, new_name, out_path, log, seen, extracted>>
    /\ UNCHANGED concVars
    /\ UNCHANGED cleanVars

\* handle_pdf: the extension test; "[SKIP]" and return, or the call of
\* process_pdf
handle_pdf ==
    /\ pc = "handle"
    /\ IF ~IsPdf(cur)
       THEN /\ log' = Append(log, LogEntry("SKIP", cur, <<>>, ""))
            /\ pc' = "loop"
       ELSE /\ pc' = "process"
            /\ log' = log
    /\ UNCHANGED <<outDirExists, outFiles, writable, items, idx, pdfs, cur,
                   fields, new_name, out_path, seen, extracted>>
    /\ UNCHANGED concVars
    /\ UNCHANGED cleanVars

\* process_pdf whose exception is caught by on_drop instead of handle_pdf:
\* the for loop is left
process_pdf_parse_uncaught ==
    /\ pc = "process"
    /\ extracted' = extracted \cup {cur}
    /\ IF ~cur.readable
       THEN /\ log' = Append(log, LogEntry("ERR", cur, <<>>, "extract"))
            /\ pc' = "done"
            /\ UNCHANGED <<fields, new_name>>
       ELSE LET text == extract_text(cur)
                m == SearchAll(text)
            IN IF MissingField(m) # ""
               THEN /\ log' = Append(log, LogEntry("ERR", cur, <<>>, MissingField(m)))
                    /\ pc' = "done"
                    /\ UNCHANGED <<fields, new_name>>
               ELSE /\ fields' = m
                    /\ new_name' = NewName(text, m)
                    /\ pc' = "place"
                    /\ log' = log
    /\ UNCHANGED <<outDirExists, outFiles, writable, items, idx, pdfs, cur,
                   out_path, seen>>
    /\ UNCHANGED concVars
    /\ UNCHANGED cleanVars

\* process_pdf that creates the output directory before it reads the file
process_pdf_parse_mkdir_first ==
    /\ pc = "process"
    /\ extracted' = extracted \cup {cur}
    /\ outDirExists' = (outDirExists \/ writable)
    /\ IF ~cur.readable
       THEN /\ log' = Append(log, LogEntry("ERR", cur, <<>>, "extract"))
            /\ pc' = "loop"
            /\ UNCHANGED <<fields, new_name>>
       ELSE LET text == extract_text(cur)
                m == SearchAll(text)
            IN IF MissingField(m) # ""
               THEN /\ log' = Append(log, LogEntry("ERR", cur, <<>>, MissingField(m)))
                    /\ pc' = "loop"
                    /\ UNCHANGED <<fields, new_name>>
               ELSE /\ fields' = m
                    /\ new_name' = NewName(text, m)
                    /\ pc' = "place"
                    /\ log' = log
    /\ UNCHANGED <<outFiles, writable, items, idx, pdfs, cur, out_path, seen>>
    /\ UNCHANGED concVars
    /\ UNCHANGED cleanVars

\* process_pdf up to new_name: extract_text (which raises on a file the
\* library cannot read), the four searches, the four checks, the name.
\* An exception is caught by handle_pdf and reported as "[ERR]".
process_pdf_parse ==
    /\ pc = "process"
    /\ extracted' = extracted \cup {cur}
    /\ IF ~cur.readable
       THEN /\ log' = Append(log, LogEntry("ERR", cur, <<>>, "extract"))
            /\ pc' = "loop"
            /\ UNCHANGED <<fields, new_name>>
       ELSE LET text == extract_text(cur)
                m == SearchAll(text)
            IN IF MissingField(m) # ""
               THEN /\ log' = Append(log, LogEntry("ERR", cur, <<>>, MissingField(m)))
                    /\ pc' = "loop"
                    /\ UNCHANGED <<fields, new_name>>
               ELSE /\ fields' = m
                    /\ new_name' = NewName(text, m)
                    /\ pc' = "place"
                    /\ log' = log
    /\ UNCHANGED <<outDirExists, outFiles, writable, items, idx, pdfs, cur,
                   out_path, seen>>
    /\ UNCHANGED concVars
    /\ UNCHANGED cleanVars

\* output_dir.mkdir(parents=True, exist_ok=True), which raises when the
\* directory is missing and cannot be created; then make_unique
process_pdf_place ==
    /\ pc = "place"
    /\ IF ~outDirExists /\ ~writable
       THEN /\ log' = Append(log, LogEntry("ERR", cur, <<>>, "io"))
            /\ pc' = "loop"
            /\ UNCHANGED <<outDirExists, out_path>>
       ELSE /\ outDirExists' = TRUE
            /\ out_path' = make_unique(DOMAIN outFiles, new_name)
            /\ pc' = "write"
            /\ log' = log
    /\ UNCHANGED <<outFiles, writable, items, idx, pdfs, cur, fields,
                   new_name, seen, extracted>>
    /\ UNCHANGED concVars
    /\ UNCHANGED cleanVars

\* out_path.write_bytes(pdf.read_bytes()), which raises when the directory
\* is not writable; on return handle_pdf reports "[OK]"
process_pdf_write ==
    /\ pc = "write"
    /\ IF ~writable
       THEN /\ log' = Append(log, LogEntry("ERR", cur, <<>>, "io"))
            /\ outFiles' = outFiles
       ELSE /\ outFiles' = Put(outFiles, out_path, read_bytes(cur))
            /\ log' = Append(log, LogEntry("OK", cur, out_path, ""))
    /\ pc' = "loop"
    /\ UNCHANGED <<outDirExists, writable, items, idx, pdfs, cur, fields,
                   new_name, out_path, seen, extracted>>
    /\ UNCHANGED concVars
    /\ UNCHANGED cleanVars

---------------------------------------------------------------------------
(* Two runs of process_pdf on one output directory.  Each run is the code  *)
(* of process_pdf; what the file system interleaves are its calls: exists  *)
(* (inside make_unique) and write_bytes.  With serialized, a run starts    *)
(* the placement only when no other run is between its make_unique and     *)
(* its write_bytes.                                                        *)

Runs == {1, 2}

\* the file each run was given: two files of the same document
RunFile(w) == IF w = 1 THEN FileA ELSE FileB

Other(w) == IF w = 1 THEN 2 ELSE 1

\* the serialization an implementer adds around make_unique + write_bytes:
\* run w may enter when the other run is not between the two
MayPlace(w) == serialized => wpc[Other(w)] # "write"

\* lines 155-179 of run w
run_parse(w) ==
    /\ wpc[w] = "process"
    /\ wpc' = [wpc EXCEPT ![w] =
                  IF MissingField(SearchAll(extract_text(RunFile(w)))) = ""
                  THEN "place" ELSE "failed"]
    /\ UNCHANGED <<serialized, wout>>
    /\ UNCHANGED appVars
    /\ UNCHANGED cleanVars

\* lines 181-182 of run w: mkdir and make_unique
run_place(w) ==
    /\ wpc[w] = "place"
    /\ MayPlace(w)
    /\ outDirExists' = TRUE
    /\ wout' = [wout EXCEPT ![w] =
                   make_unique(DOMAIN outFiles,
                       NewName(extract_text(RunFile(w)),
                               SearchAll(extract_text(RunFile(w)))))]
    /\ wpc' = [wpc EXCEPT ![w] = "write"]
    /\ UNCHANGED <<outFiles, writable, items, idx, pdfs, cur, pc, fields,
                   new_name, out_path, log, seen, extracted, serialized>>
    /\ UNCHANGED cleanVars

\* lines 183-184 of run w: write_bytes
run_write(w) ==
    /\ wpc[w] = "write"
    /\ outFiles' = Put(outFiles, wout[w], read_bytes(RunFile(w)))
    /\ wpc' = [wpc EXCEPT ![w] = "done"]
    /\ UNCHANGED <<outDirExists, writable, items, idx, pdfs, cur, pc, fields,
                   new_name, out_path, log, seen, extracted, serialized, wout>>
    /\ UNCHANGED cleanVars

---------------------------------------------------------------------------
(* The sanitizer applied to a string, and to its own result. *)

CleanAlphabet == {" ", "/", "a"}

clean_once ==
    /\ cpc = 0
    /\ cy' = clean(cx)
    /\ cpc' = 1
    /\ UNCHANGED <<cx, cz>>
    /\ UNCHANGED appVars
    /\ UNCHANGED concVars

clean_twice ==
    /\ cpc = 1
    /\ cz' = clean(cy)
    /\ cpc' = 2
    /\ UNCHANGED <<cx, cy>>
    /\ UNCHANGED appVars
    /\ UNCHANGED concVars

---------------------------------------------------------------------------
(* Initial states. *)

\* the name with counter i; counter 0 is the name itself
Numbered(name, i) == IF i = 0 THEN name ELSE Candidate(name, i)

\* an output directory that holds StdName under the counters of S
PreDir(S) == [n \in {Numbered(StdName, i) : i \in S} |-> OldBytes]

\* an output directory in which StdName and every candidate of make_unique
\* exist
FullDir == PreDir(0..(RangeEnd - 1))

AppIdle ==
    /\ idx = 1
    /\ pdfs = <<>>
    /\ cur = NoFile
    /\ fields = NoFields
    /\ new_name = <<>>
    /\ out_path = <<>>
    /\ log = <<>>
    /\ seen = <<>>
    /\ extracted = {}

RunsIdle ==
    /\ serialized = FALSE
    /\ wpc = [w \in Runs |-> "off"]
    /\ wout = [w \in Runs |-> <<>>]

CleanIdle ==
    /\ cx = <<>>
    /\ cy = <<>>
    /\ cz = <<>>
    /\ cpc = 0

\* one dropped file of any document of Docs
InitOneDocument ==
    /\ items \in {<< FileItem(FileOf(<<"r",".","p","d","f">>, d, TRUE)) >> : d \in Docs}
    /\ writable \in BOOLEAN
    /\ \/ outDirExists = FALSE /\ outFiles = NoFiles
       \/ outDirExists = TRUE /\ outFiles \in {PreDir(S) : S \in SUBSET {0}}

\* a batch of up to MaxItems items
InitBatch ==
    /\ items \in SeqsUpTo(ItemUniverse, MaxItems)
    /\ writable \in BOOLEAN
    /\ \/ outDirExists = FALSE /\ outFiles = NoFiles
       \/ outDirExists = TRUE /\ outFiles \in {PreDir(S) : S \in SUBSET {0}}

\* up to MaxItems files of one document, dropped into a directory that
\* holds any of its names up to counter MaxPre
InitCollisions ==
    /\ items \in SeqsUpTo({FileItem(FileA), FileItem(FileB)}, MaxItems)
    /\ writable = TRUE
    /\ outDirExists = TRUE
    /\ outFiles \in {PreDir(S) : S \in SUBSET (0..MaxPre)}

\* a drop into a directory where every candidate name is taken
InitFullDir ==
    /\ items \in {<<FileItem(FileA)>>, <<FileItem(FileA), FileItem(FileB)>>}
    /\ writable = TRUE
    /\ outDirExists = TRUE
    /\ outFiles = FullDir

Init ==
    /\ pc = "idle"
    /\ AppIdle
    /\ RunsIdle
    /\ CleanIdle
    /\ \/ InitOneDocument
       \/ InitBatch
       \/ InitCollisions
       \/ InitFullDir

Next ==
    \/ on_drop_begin
    \/ on_drop_dir
    \/ on_drop_entry
    \/ on_drop_file
    \/ on_drop_end
    \/ handle_pdf
    \/ process_pdf_parse
    \/ process_pdf_place
    \/ process_pdf_write

Spec == Init /\ [][Next]_vars

InitRuns ==
    /\ pc = "off"
    /\ AppIdle
    /\ CleanIdle
    /\ items = <<>>
    /\ writable = TRUE
    /\ serialized \in BOOLEAN
    /\ wpc = [w \in Runs |-> "process"]
    /\ wout = [w \in Runs |-> <<>>]
    /\ \/ outDirExists = FALSE /\ outFiles = NoFiles
       \/ outDirExists = TRUE /\ outFiles \in {PreDir(S) : S \in SUBSET (0..MaxPre)}
       \/ outDirExists = TRUE /\ outFiles = FullDir

NextRuns == \E w \in Runs : run_parse(w) \/ run_place(w) \/ run_write(w)

SpecRuns == InitRuns /\ [][NextRuns]_vars

InitClean ==
    /\ pc = "off"
    /\ AppIdle
    /\ RunsIdle
    /\ items = <<>>
    /\ writable = TRUE
    /\ outDirExists = FALSE
    /\ outFiles = NoFiles
    /\ cx \in SeqsUpTo(CleanAlphabet, MaxLen)
    /\ cy = <<>>
    /\ cz = <<>>
    /\ cpc = 0

NextClean == clean_once \/ clean_twice

SpecClean == InitClean /\ [][NextClean]_vars

---------------------------------------------------------------------------
(* Properties. *)

\* the last line of the log, when it reports the outcome of cur
LastIsOutcome == log # <<>> /\ IsOutcome(log[Len(log)])
Last == log[Len(log)]

\* the reports of files written for StdDoc, in order
IsStdWrite(e) == e.tag = "OK" /\ e.file.doc = StdDoc
StdWrites == SelectSeq(log, IsStdWrite)

\* no file of the output directory was there before the drop
NothingOld == \A n \in DOMAIN outFiles : outFiles[n] # OldBytes

\* C1: make_unique(path) returns path when path does not exist, and else
\* the candidate of the smallest i in 1, 2, 3, ... that does not exist; so
\* k documents of one name F dropped into an empty output directory are
\* written as F, F(1), ..., F(k-1) in processing order.
C1_SmallestFreeCounter ==
    /\ pc = "write" =>
         LET names == DOMAIN outFiles
         IN IF new_name \notin names
            THEN out_path = new_name
            ELSE \E i \in 1..(Cardinality(names) + 1) :
                    /\ out_path = Candidate(new_name, i)
                    /\ out_path \notin names
                    /\ \A j \in 1..(i - 1) : Candidate(new_name, j) \in names
    /\ NothingOld =>
         \A k \in 1..Len(StdWrites) : StdWrites[k].out = Numbered(StdName, k - 1)

\* C2: the path process_pdf writes to does not exist just before the write,
\* whatever the output directory holds.
C2_WriteTargetIsNew == pc = "write" => out_path \notin DOMAIN outFiles

\* the fields whose pattern has no match in text, by priority 1..4
FieldPriority == <<"Patient ID", "Patient Name", "Plan Name", "Diff/Dist">>

Absent(text) ==
    {k \in 1..4 :
        \/ k = 1 /\ \A p \in 1..Len(text) : ~PidMatchAt(text, p).ok
        \/ k = 2 /\ \A p \in 1..Len(text) : ~NameMatchAt(text, p).ok
        \/ k = 3 /\ \A p \in 1..Len(text) : ~PlanMatchAt(text, p).ok
        \/ k = 4 /\ \A p \in 1..Len(text) : ~GammaMatchAt(text, p).ok}

\* the last report is that of a file process_pdf could read
LastWasParsed ==
    /\ LastIsOutcome
    /\ Last.tag \in {"OK", "ERR"}
    /\ Last.file.readable

\* C3: when a required pattern has no match in the text, process_pdf fails
\* and reports the absent field that comes first in the order Patient ID,
\* Patient Name, Plan Name, gamma criteria.
C3_FirstAbsentFieldReported ==
    LastWasParsed =>
        LET A == Absent(extract_text(Last.file))
        IN A # {} => /\ Last.tag = "ERR"
                     /\ Last.err = FieldPriority[Min(A)]

\* two or more fields absent, the first of them not Patient ID
C3_Witness ==
    /\ LastWasParsed
    /\ Absent(extract_text(Last.file)) = {3, 4}
    /\ Last.tag = "ERR"
    /\ Last.err = "Plan Name"

\* C4: clean(clean(x)) = clean(x) for every string x.
C4_CleanIdempotent == cpc = 2 => cz = cy

\* C5: a process_pdf that fails in extraction or field parsing leaves the
\* output directory as it was: not created, no file written or changed.
C5_FailureLeavesDirectory ==
    [][(pc = "process" /\ pc' # "place")
          => /\ pc' = "loop"
             /\ outDirExists' = outDirExists
             /\ outFiles' = outFiles]_vars

\* a missing-field failure was reported and the output directory is absent
C5_Witness ==
    /\ pc = "loop"
    /\ LastIsOutcome
    /\ Last.tag = "ERR"
    /\ Last.err = "Plan Name"
    /\ ~outDirExists

\* the files of a batch in the order on_drop hands them to handle_pdf
RECURSIVE BatchFiles(_)
BatchFiles(its) ==
    IF its = <<>> THEN <<>>
    ELSE (IF Head(its).isDir
          THEN SortedFiles(Glob(Head(its).entries))
          ELSE <<Head(its).file>>) \o BatchFiles(Tail(its))

InHandlePdf == pc \in {"handle", "process", "place", "write"}

\* the guard of some step of the handler holds: it has not stopped
HandlerCanStep ==
    \/ pc \in {"idle", "handle", "process", "place", "write"}
    \/ pc = "loop" /\ (pdfs # <<>> \/ idx <= Len(items) \/ idx > Len(items))

C7_SerializedRunsBothSurvive ==
    (serialized /\ wpc[1] = "done" /\ wpc[2] = "done")
        => /\ wout[1] # wout[2]
           /\ outFiles[wout[1]] = read_bytes(RunFile(1))
           /\ outFiles[wout[2]] = read_bytes(RunFile(2))

\* the race of the unserialized runs: the directory is not full, so each
\* run got from make_unique a name it saw as not existing; it is the same
\* name, and only the later write is left
C7_RaceLosesOutput ==
    /\ ~serialized
    /\ wpc[1] = "done" /\ wpc[2] = "done"
    /\ Cardinality(DOMAIN outFiles) < RangeEnd
    /\ wout[1] = wout[2]
    /\ outFiles[wout[1]] \in {read_bytes(RunFile(1)), read_bytes(RunFile(2))}

\* the name ends in ".pdf" in any letter case, after at least one character
EndsInDotPdf(name) ==
    /\ Len(name) > 4
    /\ name[Len(name) - 3] = "."
    /\ name[Len(name) - 2] \in {"p", "P"}
    /\ name[Len(name) - 1] \in {"d", "D"}
    /\ name[Len(name)] \in {"f", "F"}

\* C8: a file whose extension is not ".pdf", in any letter case, is never
\* passed to process_pdf or extract_text; handle_pdf reports it as skipped,
\* dropped directly or found in a dropped directory.
C8_NonPdfNeverExtracted ==
    /\ \A f \in extracted : EndsInDotPdf(f.name)
    /\ \A i \in 1..Len(Outcomes) :
          ~EndsInDotPdf(Outcomes[i].file.name) => Outcomes[i].tag = "SKIP"
    /\ (InHandlePdf /\ pc # "handle") => EndsInDotPdf(cur.name)

\* a directory entry and a dropped file were both skipped
C8_Witness ==
    /\ \E i \in 1..Len(Outcomes) :
          Outcomes[i].tag = "SKIP" /\ Outcomes[i].file = FileHidden
    /\ \E i \in 1..Len(Outcomes) :
          Outcomes[i].tag = "SKIP" /\ Outcomes[i].file = FileE
    /\ FileHidden \notin extracted
    /\ FileE \notin extracted

\* the file name of the grammar for the groups the patterns capture in text
GrammarName(text) ==
    LET pidM == PidSearch(text)
        nameM == NameSearch(text)
        planM == PlanSearch(text)
        gammaM == GammaSearch(text)
    IN clean(SubSeq(text, pidM.start, pidM.stop - 1)) \o <<"_">>
         \o clean(SubSeq(text, nameM.start, nameM.stop - 1)) \o <<"_">>
         \o clean(SubSeq(text, planM.start, planM.stop - 1)) \o <<"_">>
         \o SubSeq(text, gammaM.start, gammaM.stop - 1) \o <<"%">>
         \o SubSeq(text, gammaM.start2, gammaM.stop2 - 1)
         \o <<"m","m",".","p","d","f">>

\* out is name, or name with a counter
IsNameOrNumbered(out, name) ==
    \/ out = name
    \/ \E i \in 1..(RangeEnd - 1) : out = Candidate(name, i)

EmptyTokenName == <<"A","B","C","1","2","3","4","5","_","_","P","l","a","n"," ","A","_","3","%","2","m","m",".","p","d","f">>
LeadingZeroName == <<"A","B","C","1","2","3","4","5","_","J","o","h","n"," ","D","o","e","_","P","l","a","n"," ","A","_","0","3","%","1","0","m","m",".","p","d","f">>

\* C9: when all four patterns match and the output directory is writable,
\* process_pdf succeeds and the name it synthesizes is clean(id) "_"
\* clean(name) "_" clean(plan) "_" diff "%" dist "mm.pdf": an empty token
\* keeps its place and the digits are used as they stand.
C9_SynthesizedNameGrammar ==
    /\ pc \in {"place", "write"} =>
          /\ new_name = GrammarName(extract_text(cur))
          /\ cur.doc = StdDoc => new_name = StdName
          /\ (cur.doc.pid = 2 /\ cur.doc.name = 5 /\ cur.doc.plan = 2 /\ cur.doc.gamma = 2)
                => new_name = EmptyTokenName
          /\ (cur.doc.pid = 2 /\ cur.doc.name = 2 /\ cur.doc.plan = 2 /\ cur.doc.gamma = 3)
                => new_name = LeadingZeroName
    /\ (LastWasParsed /\ writable /\ Absent(extract_text(Last.file)) = {}) =>
          /\ Last.tag = "OK"
          /\ IsNameOrNumbered(Last.out, GrammarName(extract_text(Last.file)))
          /\ Last.out \in DOMAIN outFiles
          /\ outFiles[Last.out] = read_bytes(Last.file)

\* a file was written under a name with an empty token
C9_Witness ==
    /\ LastIsOutcome
    /\ Last.tag = "OK"
    /\ Last.out = EmptyTokenName
    /\ EmptyTokenName \in DOMAIN outFiles

\* no line break stands between the end of the label and the group of m
GroupOnLabelLine(text, m, label) ==
    \A k \in (m.at + Len(label))..(m.start - 1) : text[k] \notin LineBreak

\* C10: the Patient Name and the Plan Name the parser captures are the rest
\* of the line of the label: never text of a following line.
C10_CaptureStaysOnLabelLine ==
    pc \in {"place", "write"} =>
        /\ GroupOnLabelLine(extract_text(cur), fields.name, PatientNameLabel)
        /\ GroupOnLabelLine(extract_text(cur), fields.plan, PlanNameLabel)

====
